---- MODULE Spec2Model ----
(***************************************************************************)
(* Model of the requirement-extraction pipeline of                         *)
(* job_requirements_extractor.extractor.JobRequirementsExtractor.          *)
(*                                                                         *)
(* Text is modelled by TLA+ strings, a character by a string of length 1.  *)
(* The model's alphabet is printable ASCII plus the whitespace characters  *)
(* space, \t, \n, \r and \f.  The bullet glyph U+2022 of the source's      *)
(* regular expressions is written "~" (Bullet) throughout, so "~" never    *)
(* stands for the tilde.                                                   *)
(*                                                                         *)
(* Numbers that the code computes as floats are modelled exactly: an       *)
(* entity score is an integer number of hundredths, a ratio is a record    *)
(* [num, den] with den >= 1.                                               *)
(***************************************************************************)
EXTENDS Integers, Sequences, FiniteSets, TLC

(***************************************************************************)
(* Characters and the str methods the code uses.                           *)
(***************************************************************************)
Bullet == "~"

Whitespace == {" ", "\t", "\n", "\r", "\f"}

Digits == {"0", "1", "2", "3", "4", "5", "6", "7", "8", "9"}

LowerLetters == "abcdefghijklmnopqrstuvwxyz"

UpperLetters == "ABCDEFGHIJKLMNOPQRSTUVWXYZ"

Char(s, i) == SubSeq(s, i, i)

CharsOf(s) == {Char(s, i) : i \in 1..Len(s)}

LowerSet == CharsOf(LowerLetters)

UpperSet == CharsOf(UpperLetters)

\* str.isalpha() of one character
IsAlpha(c) == c \in LowerSet \/ c \in UpperSet

\* \w of the re module
IsWord(c) == IsAlpha(c) \/ c \in Digits \/ c = "_"

\* \s of the re module, and the characters str.strip() removes
IsSpace(c) == c \in Whitespace

\* str.lower() of one character
LowerChar(c) ==
    IF c \in UpperSet
    THEN Char(LowerLetters, CHOOSE i \in 1..26 : Char(UpperLetters, i) = c)
    ELSE c

\* str.upper() of one character
UpperChar(c) ==
    IF c \in LowerSet
    THEN Char(UpperLetters, CHOOSE i \in 1..26 : Char(LowerLetters, i) = c)
    ELSE c

RECURSIVE CatChars(_, _, _)
\* ''.join(f(i) for i in range(lo, hi + 1)), by halving the range
CatChars(f(_), lo, hi) ==
    IF lo > hi THEN ""
    ELSE IF lo = hi THEN f(lo)
    ELSE LET mid == (lo + hi) \div 2
         IN  CatChars(f, lo, mid) \o CatChars(f, mid + 1, hi)

RECURSIVE CatSeqs(_, _, _)
\* the concatenation of the lists f(lo), ..., f(hi), by halving the range
CatSeqs(f(_), lo, hi) ==
    IF lo > hi THEN <<>>
    ELSE IF lo = hi THEN f(lo)
    ELSE LET mid == (lo + hi) \div 2
         IN  CatSeqs(f, lo, mid) \o CatSeqs(f, mid + 1, hi)

RECURSIVE SumRange(_, _, _)
\* sum(f(i) for i in range(lo, hi + 1)), by halving the range
SumRange(f(_), lo, hi) ==
    IF lo > hi THEN 0
    ELSE IF lo = hi THEN f(lo)
    ELSE LET mid == (lo + hi) \div 2
         IN  SumRange(f, lo, mid) + SumRange(f, mid + 1, hi)

\* str.lower()
Lower(s) == CatChars(LAMBDA i : LowerChar(Char(s, i)), 1, Len(s))

SetMin(S) == CHOOSE x \in S : \A y \in S : x <= y

SetMax(S) == CHOOSE x \in S : \A y \in S : y <= x

\* str.strip()
Strip(s) ==
    LET keep == {i \in 1..Len(s) : ~IsSpace(Char(s, i))}
    IN  IF keep = {} THEN "" ELSE SubSeq(s, SetMin(keep), SetMax(keep))

\* sub in s
Contains(s, sub) ==
    \E i \in 1..(Len(s) - Len(sub) + 1) : SubSeq(s, i, i + Len(sub) - 1) = sub

\* any(term in s for term in terms)
ContainsAny(s, terms) == \E k \in 1..Len(terms) : Contains(s, terms[k])

\* the number of leading characters of s that belong to class
LeadingRun(s, class) ==
    LET stop == {i \in 1..Len(s) : Char(s, i) \notin class}
    IN  IF stop = {} THEN Len(s) ELSE SetMin(stop) - 1

\* the length of the run of characters of class that starts at position i of s
RunAt(s, i, class) == LeadingRun(SubSeq(s, i, Len(s)), class)

\* str.split(sep) for a separator of one character: one piece ends before
\* every separator and one at the end of s
SplitOn(s, sep) ==
    LET IsEnd(i) == i = Len(s) + 1 \/ Char(s, i) = sep
        Piece(i) ==
            LET before == {j \in 1..(i - 1) : Char(s, j) = sep}
                start == IF before = {} THEN 1 ELSE SetMax(before) + 1
            IN  SubSeq(s, start, i - 1)
    IN  CatSeqs(LAMBDA i : IF IsEnd(i) THEN <<Piece(i)>> ELSE <<>>,
                1, Len(s) + 1)

\* text.split('\n')
SplitLines(s) == SplitOn(s, "\n")

\* str.split() without argument: the whitespace-separated tokens, one for
\* every position where a run of other characters starts
Words(s) ==
    LET Starts(i) == /\ ~IsSpace(Char(s, i))
                     /\ (i = 1 \/ IsSpace(Char(s, i - 1)))
        Token(i) ==
            SubSeq(s, i, i + RunAt(s, i, CharsOf(s) \ Whitespace) - 1)
    IN  CatSeqs(LAMBDA i : IF Starts(i) THEN <<Token(i)>> ELSE <<>>, 1, Len(s))

\* cleaned[0].upper() + cleaned[1:] if cleaned[0].isalpha() else cleaned
\* the cleaning loop without the capitalization
Capitalize_Keep(s) == s

Capitalize(s) ==
    IF s # "" /\ IsAlpha(Char(s, 1))
    THEN UpperChar(Char(s, 1)) \o SubSeq(s, 2, Len(s))
    ELSE s

(***************************************************************************)
(* _clean_text                                                             *)
(***************************************************************************)
\* re.sub(r'[ \t]+', ' ', text): the first character of a run of spaces and
\* tabs becomes a space, the rest of the run is dropped
Collapse(s) ==
    LET Blank(i) == Char(s, i) \in {" ", "\t"}
        Replaced(i) ==
            IF ~Blank(i) THEN Char(s, i)
            ELSE IF i > 1 /\ Blank(i - 1) THEN ""
            ELSE " "
    IN  CatChars(Replaced, 1, Len(s))

\* the characters the second substitution of _clean_text keeps
KeptChar(c) ==
    \/ IsWord(c)
    \/ IsSpace(c)
    \/ c \in {"-", ".", ",", ";", ":", "!", "?", "(", ")", Bullet, "*"}

\* re.sub(r'[^\w\s\-\.\,\;\:\!\?\(\)(bullet)\-\*]', '', text)
Filter(s) ==
    CatChars(LAMBDA i : IF KeptChar(Char(s, i)) THEN Char(s, i) ELSE "",
             1, Len(s))

\* _clean_text collapsing every run of whitespace, line breaks included
clean_text_CollapsesLines(text) ==
    LET spaced == CatChars(LAMBDA i : IF Char(text, i) = "\n" THEN " "
                                      ELSE Char(text, i), 1, Len(text))
    IN  Strip(Filter(Collapse(spaced)))

clean_text(text) == Strip(Filter(Collapse(text)))

(***************************************************************************)
(* re.split on the three separator patterns of the code                    *)
(***************************************************************************)
Terminators == {".", "!", "?"}

\* the characters of the class [-(bullet)\*\s\d\.\)] of the marker patterns
MarkerClass == {"-", Bullet, "*", ".", ")"} \cup Whitespace \cup Digits

\* length of the match of the separator pattern at position i, 0 when there is
\* none.  pattern "sentence" is [.!?]+ ; "bullets" adds \n- \n(bullet) \n\* ;
\* "full" adds \n\d+\. and \n\d+\)
SepMatch(s, i, pattern) ==
    LET c == Char(s, i)
        n == IF i < Len(s) THEN Char(s, i + 1) ELSE ""
        d == RunAt(s, i + 1, Digits)
    IN  IF c \in Terminators THEN RunAt(s, i, Terminators)
        ELSE IF c # "\n" \/ pattern = "sentence" THEN 0
        ELSE IF n \in {"-", Bullet, "*"} THEN 2
        ELSE IF pattern = "full" /\ d >= 1 /\ i + 1 + d <= Len(s)
                /\ Char(s, i + 1 + d) \in {".", ")"} THEN d + 2
        ELSE 0

RECURSIVE SplitFrom(_, _, _)
\* the pieces of s from position p on: the text up to the leftmost match at or
\* after p, then the pieces after that match
SplitFrom(s, pattern, p) ==
    LET matches == {i \in p..Len(s) : SepMatch(s, i, pattern) > 0}
        first == SetMin(matches)
    IN  IF matches = {} THEN <<SubSeq(s, p, Len(s))>>
        ELSE <<SubSeq(s, p, first - 1)>>
                 \o SplitFrom(s, pattern, first + SepMatch(s, first, pattern))

\* re.split(pattern, text)
ReSplit(s, pattern) == SplitFrom(s, pattern, 1)

(***************************************************************************)
(* _extract_text_patterns: the pattern detector                            *)
(***************************************************************************)
\* requirement_keywords of _extract_text_patterns and of _generate_summary
requirement_keywords ==
    <<"required", "must", "should", "preferred", "desired", "essential",
      "necessary", "mandatory", "experience", "skills", "knowledge",
      "proficient", "expert", "skilled", "qualified", "background",
      "understanding", "familiarity", "certification", "degree", "years",
      "senior", "junior", "entry", "level">>

skip_indicators ==
    <<"we offer", "we provide", "benefits include", "responsibilities",
      "duties", "about us", "company", "team", "culture">>

MinSentenceLen == 10

\* KeepSentence without the skip_indicators test
KeepSentence_NoExclusion(sentence) ==
    /\ Len(sentence) >= MinSentenceLen
    /\ ContainsAny(Lower(sentence), requirement_keywords)

\* KeepSentence without the length test
KeepSentence_NoMinLen(sentence) ==
    /\ ContainsAny(Lower(sentence), requirement_keywords)
    /\ ~ContainsAny(Lower(sentence), skip_indicators)

\* the test of the first loop of _extract_text_patterns on a stripped segment
KeepSentence(sentence) ==
    /\ Len(sentence) >= MinSentenceLen
    /\ ContainsAny(Lower(sentence), requirement_keywords)
    /\ ~ContainsAny(Lower(sentence), skip_indicators)

\* the list `requirements` after the first loop: the stripped segments kept
KeptSentences(text) ==
    LET sentences == ReSplit(text, "full")
        stripped == [k \in 1..Len(sentences) |-> Strip(sentences[k])]
    IN  SelectSeq(stripped, KeepSentence)

\* re.sub(r'^[-(bullet)\*\s\d\.\)]+', '', cleaned)
StripMarkers(s) == SubSeq(s, LeadingRun(s, MarkerClass) + 1, Len(s))

\* the body of the second loop: strip, remove the markers, capitalize
FormatRequirement(req) == Capitalize(StripMarkers(Strip(req)))

\* the list `cleaned_requirements`: empty strings are not appended
CleanedRequirements(text) ==
    LET reqs == KeptSentences(text)
        formatted == [k \in 1..Len(reqs) |-> FormatRequirement(reqs[k])]
    IN  SelectSeq(formatted, LAMBDA c : c # "")

RECURSIVE DedupFrom(_, _, _)
DedupFrom(seq, i, acc) ==
    IF i > Len(seq) THEN acc
    ELSE IF \E k \in 1..Len(acc) : acc[k] = seq[i]
         THEN DedupFrom(seq, i + 1, acc)
         ELSE DedupFrom(seq, i + 1, Append(acc, seq[i]))

Reverse(seq) == [k \in 1..Len(seq) |-> seq[Len(seq) + 1 - k]]

Rotate(seq, r) ==
    [k \in 1..Len(seq) |-> seq[((k - 1 + r) % Len(seq)) + 1]]

\* list(set(items)): the distinct items in the iteration order of the set,
\* which the string hash of the process (seed) decides.  Seed 0 is the order
\* of first occurrence, an odd seed reverses it and seed \div 2 rotates it.
ListOfSet(items, seed) ==
    LET distinct == DedupFrom(items, 1, <<>>)
        rotated == IF distinct = <<>> THEN distinct
                   ELSE Rotate(distinct, seed \div 2)
    IN  IF seed % 2 = 1 THEN Reverse(rotated) ELSE rotated

\* extract_text_patterns normalizing its argument before it splits it
extract_text_patterns_Cleaning(text, seed) ==
    ListOfSet(CleanedRequirements(clean_text(text)), seed)

\* extract_text_patterns removing the duplicates of the kept segments before
\* it strips and capitalizes them
extract_text_patterns_DedupFirst(text, seed) ==
    LET reqs == ListOfSet(KeptSentences(text), seed)
        formatted == [k \in 1..Len(reqs) |-> FormatRequirement(reqs[k])]
    IN  SelectSeq(formatted, LAMBDA c : c # "")

extract_text_patterns(text, seed) == ListOfSet(CleanedRequirements(text), seed)

(***************************************************************************)
(* _extract_individual_requirements: the list detector                     *)
(***************************************************************************)
requirement_indicators ==
    <<"required", "must", "should", "preferred", "desired", "essential",
      "necessary", "mandatory", "experience", "skills", "knowledge",
      "proficient", "expert", "skilled", "qualified", "background",
      "understanding", "familiarity", "certification", "degree", "years",
      "senior", "junior", "entry", "level", "python", "java", "javascript",
      "aws", "docker", "kubernetes", "sql", "agile", "git", "ci/cd", "api",
      "machine learning", "tensorflow", "pytorch", "microservices",
      "monitoring", "security", "net", "c#", "asp.net", "html", "css",
      "angular", "ionic", "lead", "mentor", "manage", "team", "leadership",
      "management", "foster", "culture", "conduct", "reviews", "planning",
      "delivery", "oversee", "drive", "ensure", "maintain", "champion",
      "collaborate", "liaise", "translate", "requirements", "solutions",
      "stakeholders", "timelines", "sprint", "resource", "allocation",
      "progress", "reporting", "quality", "operations", "reliability",
      "performance", "security", "production", "improvement", "innovation",
      "processes">>

\* length of the match of r'^[\s]*[-(bullet)\*\s\d\.\)]+[\s]*' at the start of
\* line, 0 when it does not match: [\s]* takes the leading whitespace and gives
\* one character back when no marker character follows it
BulletMatch(line) ==
    LET ws == LeadingRun(line, Whitespace)
        m == RunAt(line, ws + 1, MarkerClass)
    IN  IF m >= 1 THEN ws + m + RunAt(line, ws + m + 1, Whitespace)
        ELSE IF ws >= 1 THEN ws
        ELSE 0

is_bullet_point(line) == BulletMatch(line) > 0

MinIndent == 4

\* re.match(r'^[\s]{4,}', line)
is_indented(line) == LeadingRun(line, Whitespace) >= MinIndent

MinItemLen == 3

\* what one line of the text adds to individual_reqs: nothing or one entry
LineRequirements(line) ==
    IF Strip(line) = "" THEN <<>>
    ELSE IF ~(is_bullet_point(line) \/ is_indented(line)) THEN <<>>
    ELSE LET cleaned ==
                 IF is_bullet_point(line)
                 THEN Strip(SubSeq(line, BulletMatch(line) + 1, Len(line)))
                 ELSE Strip(line)
         IN  IF Len(cleaned) > MinItemLen
                /\ ContainsAny(Lower(cleaned), requirement_indicators)
             THEN <<Capitalize(cleaned)>>
             ELSE <<>>

extract_individual_requirements(text) ==
    LET lines == SplitLines(text)
    IN  CatSeqs(LAMBDA k : LineRequirements(lines[k]), 1, Len(lines))

(***************************************************************************)
(* _extract_entities: the adapter of the NER capability                    *)
(*                                                                         *)
(* The capability self.ner_pipeline is a record: kind "none" is None,      *)
(* kind "raises" raises when called and kind "returns" returns the list    *)
(* out.  An item of out has is_dict FALSE when it is no dict; otherwise    *)
(* its str fields hold "" for a key that is missing (or falsy, which the   *)
(* code's `or` treats alike) and score is [tag, val]: tag "none" for a     *)
(* missing score, "num" for val hundredths, "str" for a str.               *)
(***************************************************************************)
ConfidenceThreshold == 70

\* entity.get('score') or 0.0
ScoreOrZero(score) ==
    IF score.tag = "none" \/ (score.tag = "num" /\ score.val = 0)
    THEN [tag |-> "num", val |-> 0]
    ELSE score

\* IsConfident with >= for >
IsConfident_AtLeast(entity_score) == entity_score.val >= ConfidenceThreshold

\* entity_score > 0.7
IsConfident(entity_score) == entity_score.val > ConfidenceThreshold

\* the body of the loop over entities: what one item adds to relevant_entities
EntityResult(entity) ==
    IF ~entity.is_dict THEN <<>>
    ELSE LET entity_type ==
                 IF entity.entity_group # "" THEN entity.entity_group
                 ELSE IF entity.entity_type # "" THEN entity.entity_type
                 ELSE "UNKNOWN"
             entity_text ==
                 IF entity.word # "" THEN entity.word
                 ELSE IF entity.text # "" THEN entity.text
                 ELSE ToString(entity)
             entity_score == ScoreOrZero(entity.score)
         IN  \* comparing a str with 0.7 raises TypeError, which the inner
             \* except turns into `continue`
             IF entity_score.tag # "num" THEN <<>>
             ELSE IF IsConfident(entity_score)
             THEN <<[text |-> entity_text, type |-> entity_type,
                     confidence |-> entity_score.val]>>
             ELSE <<>>

\* extract_entities reporting a failing capability as an entity
extract_entities_ErrorEntry(ner, text) ==
    IF ner.kind = "none" THEN <<>>
    ELSE IF ner.kind = "raises"
    THEN <<[text |-> "NER failed", type |-> "ERROR", confidence |-> 0]>>
    ELSE CatSeqs(LAMBDA k : EntityResult(ner.out[k]), 1, Len(ner.out))

\* extract_entities without the inner try: the first item that is no dict or
\* whose score cannot be compared ends in the outer except
extract_entities_AbortOnMalformed(ner, text) ==
    IF ner.kind # "returns" THEN <<>>
    ELSE IF \E k \in 1..Len(ner.out) :
                ~ner.out[k].is_dict \/ ner.out[k].score.tag = "str"
    THEN <<>>
    ELSE CatSeqs(LAMBDA k : EntityResult(ner.out[k]), 1, Len(ner.out))

extract_entities(ner, text) ==
    IF ner.kind = "none" THEN <<>>
    ELSE IF ner.kind = "raises" THEN <<>>
    ELSE LET entities == ner.out
         IN  CatSeqs(LAMBDA k : EntityResult(entities[k]), 1, Len(entities))

(***************************************************************************)
(* _categorize_requirements                                                *)
(***************************************************************************)
CategoryNames ==
    <<"experience", "education", "technical_skills", "soft_skills", "tools",
      "methodologies">>

\* self.categories
categories(category) ==
    CASE category = "experience" ->
             <<"years", "experience", "senior", "junior", "entry">>
      [] category = "education" ->
             <<"degree", "bachelor", "master", "phd", "certification">>
      [] category = "technical_skills" ->
             <<"python", "java", "javascript", "sql", "aws", "docker">>
      [] category = "soft_skills" ->
             <<"communication", "leadership", "teamwork", "problem-solving">>
      [] category = "tools" ->
             <<"git", "jira", "confluence", "slack", "teams">>
      [] category = "methodologies" ->
             <<"agile", "scrum", "waterfall", "kanban">>

MinCategorizedLen == 10

\* the requirements the loop does not skip and that match the category
MatchesCategory(req, category) ==
    /\ req # ""
    /\ Len(req) >= MinCategorizedLen
    /\ ContainsAny(Lower(req), categories(category))

\* the loop leaving a requirement at the first category it matches
CategoryItems_FirstMatch(all_requirements, category) ==
    LET first(r) ==
            SetMin({n \in 1..Len(CategoryNames) :
                        MatchesCategory(r, CategoryNames[n])})
        matching ==
            SelectSeq(all_requirements,
                      LAMBDA r : /\ MatchesCategory(r, category)
                                 /\ CategoryNames[first(r)] = category)
        formatted == [k \in 1..Len(matching) |-> FormatRequirement(matching[k])]
    IN  DedupFrom(SelectSeq(formatted, LAMBDA c : c # ""), 1, <<>>)

\* categorized[category] at the end of the loop over all_requirements
CategoryItems(all_requirements, category) ==
    LET matching ==
            SelectSeq(all_requirements, LAMBDA r : MatchesCategory(r, category))
        formatted == [k \in 1..Len(matching) |-> FormatRequirement(matching[k])]
    IN  DedupFrom(SelectSeq(formatted, LAMBDA c : c # ""), 1, <<>>)

\* the categorizer fed with the candidates of the normalized text
categorize_requirements_Cleaned(text, seed) ==
    LET individual_reqs == extract_individual_requirements(clean_text(text))
        text_reqs == extract_text_patterns(clean_text(text), seed)
        all_requirements == individual_reqs \o text_reqs
        names == {CategoryNames[k] : k \in 1..Len(CategoryNames)}
        populated == {c \in names : CategoryItems(all_requirements, c) # <<>>}
    IN  [c \in populated |-> CategoryItems(all_requirements, c)]

categorize_requirements(text, seed) ==
    LET individual_reqs == extract_individual_requirements(text)
        text_reqs == extract_text_patterns(text, seed)
        all_requirements == individual_reqs \o text_reqs
        names == {CategoryNames[k] : k \in 1..Len(CategoryNames)}
        populated == {c \in names : CategoryItems(all_requirements, c) # <<>>}
    IN  [c \in populated |-> CategoryItems(all_requirements, c)]

(***************************************************************************)
(* _generate_summary                                                       *)
(***************************************************************************)
MinSummaryLen == 20

\* the division without the guard for an empty list of sentences
Ratio_Unguarded(n, d) == [num |-> n, den |-> d]

\* n / d as the code guards it: 0 when there is nothing to divide by
Ratio(n, d) == IF d = 0 THEN [num |-> 0, den |-> 1] ELSE [num |-> n, den |-> d]

generate_summary(text, seed) ==
    LET pieces == ReSplit(text, "bullets")
        stripped == [k \in 1..Len(pieces) |-> Strip(pieces[k])]
        sentences == SelectSeq(stripped, LAMBDA x : Len(x) > MinSummaryLen)
        requirement_count ==
            Len(SelectSeq(sentences,
                          LAMBDA x : ContainsAny(Lower(x), requirement_keywords)))
        extracted_requirements == extract_text_patterns(text, seed)
        individual_requirements == extract_individual_requirements(text)
    IN  [total_sentences |-> Len(sentences),
         requirement_sentences |-> requirement_count,
         requirement_density |-> Ratio(requirement_count, Len(sentences)),
         estimated_requirements |->
             Len(extracted_requirements) + Len(individual_requirements)]

(***************************************************************************)
(* extract_requirements                                                    *)
(***************************************************************************)
\* extract_requirements running the list detector on the normalized text
ExtractedRequirements_CleanedList(description, ner, seed) ==
    LET cleaned_text == clean_text(description)
    IN  [text_requirements |-> extract_text_patterns(cleaned_text, seed),
         individual_requirements |->
             extract_individual_requirements(cleaned_text),
         entity_requirements |-> extract_entities(ner, cleaned_text),
         categorized_requirements |->
             categorize_requirements(description, seed),
         summary |-> generate_summary(description, seed)]

\* the dictionary extract_requirements builds for a description that is not
\* empty
ExtractedRequirements(description, ner, seed) ==
    LET cleaned_text == clean_text(description)
    IN  [text_requirements |-> extract_text_patterns(cleaned_text, seed),
         individual_requirements |->
             extract_individual_requirements(description),
         entity_requirements |-> extract_entities(ner, cleaned_text),
         categorized_requirements |->
             categorize_requirements(description, seed),
         summary |-> generate_summary(description, seed)]

\* extract_requirements without the test for the empty description
extract_requirements_NoEmptyCheck(description, ner, seed) ==
    ExtractedRequirements(description, ner, seed)

\* extract_requirements taking a description of whitespace for an empty one
extract_requirements_BlankIsEmpty(description, ner, seed) ==
    IF Strip(description) = "" THEN [error |-> "No job description provided"]
    ELSE ExtractedRequirements(description, ner, seed)

extract_requirements(description, ner, seed) ==
    IF description = "" THEN [error |-> "No job description provided"]
    ELSE ExtractedRequirements(description, ner, seed)

(***************************************************************************)
(* _calculate_complexity, _generate_recommendations and                    *)
(* analyze_job_description                                                 *)
(***************************************************************************)
technical_terms ==
    {"api", "database", "algorithm", "framework", "architecture",
     "deployment", "infrastructure"}

MaxComplexity == 10

\* the score without the cap at 10
calculate_complexity_Uncapped(text) ==
    LET words == Words(text)
        sentences == ReSplit(text, "sentence")
        chars == SumRange(LAMBDA k : Len(words[k]), 1, Len(words))
        tokens == SumRange(LAMBDA k : IF Strip(sentences[k]) # ""
                                      THEN Len(Words(sentences[k])) ELSE 0,
                           1, Len(sentences))
        technical_count ==
            Len(SelectSeq(words, LAMBDA w : Lower(w) \in technical_terms))
    IN  IF words = <<>> THEN [num |-> 0, den |-> 1]
        ELSE [num |-> 3 * chars * Len(sentences) + 4 * tokens * Len(words)
                          + 3 * technical_count * Len(sentences),
              den |-> 10 * Len(words) * Len(sentences)]

\* the score as the exact ratio of
\* avg_word_length * 0.3 + avg_sentence_length * 0.4 + technical_density * 0.3
calculate_complexity(text) ==
    LET words == Words(text)
        sentences == ReSplit(text, "sentence")
        chars == SumRange(LAMBDA k : Len(words[k]), 1, Len(words))
        tokens == SumRange(LAMBDA k : IF Strip(sentences[k]) # ""
                                      THEN Len(Words(sentences[k])) ELSE 0,
                           1, Len(sentences))
        technical_count ==
            Len(SelectSeq(words, LAMBDA w : Lower(w) \in technical_terms))
        num == 3 * chars * Len(sentences) + 4 * tokens * Len(words)
                   + 3 * technical_count * Len(sentences)
        den == 10 * Len(words) * Len(sentences)
    IN  IF words = <<>> THEN [num |-> 0, den |-> 1]
        ELSE IF num > MaxComplexity * den THEN [num |-> MaxComplexity, den |-> 1]
        ELSE [num |-> num, den |-> den]

TechnicalAdvice == "Focus on highlighting relevant technical skills in your resume"

ExperienceAdvice == "Emphasize relevant work experience and achievements"

EducationAdvice == "Ensure your education credentials are clearly stated"

ManyAdvice == "This job has many requirements - consider if you meet most criteria"

FewerAdvice == "This job has fewer requirements - may be more entry-level"

\* the density test admitting 0.3 itself
IsDense_AtLeast(density) == 10 * density.num >= 3 * density.den

\* requirement_density > 0.3
IsDense(density) == 10 * density.num > 3 * density.den

generate_recommendations(requirements) ==
    LET cats == IF "categorized_requirements" \in DOMAIN requirements
                THEN requirements.categorized_requirements
                ELSE << >>
        Advice(category, advice) ==
            IF category \in DOMAIN cats /\ Len(cats[category]) > 0
            THEN <<advice>> ELSE <<>>
        dense == /\ "summary" \in DOMAIN requirements
                 /\ IsDense(requirements.summary.requirement_density)
    IN  Advice("technical_skills", TechnicalAdvice)
            \o Advice("experience", ExperienceAdvice)
            \o Advice("education", EducationAdvice)
            \o (IF dense THEN <<ManyAdvice>> ELSE <<FewerAdvice>>)

\* analyze_job_description counting the characters and tokens of the
\* normalized text
analyze_job_description_CleanedCounts(description, ner, seed) ==
    LET requirements == extract_requirements(description, ner, seed)
        cleaned_text == clean_text(description)
    IN  [requirements |-> requirements,
         text_length |-> Len(cleaned_text),
         word_count |-> Len(Words(cleaned_text)),
         complexity_score |-> calculate_complexity(description),
         recommendations |-> generate_recommendations(requirements)]

analyze_job_description(description, ner, seed) ==
    LET requirements == extract_requirements(description, ner, seed)
    IN  [requirements |-> requirements,
         text_length |-> Len(description),
         word_count |-> Len(Words(description)),
         complexity_score |-> calculate_complexity(description),
         recommendations |-> generate_recommendations(requirements)]

(***************************************************************************)
(* The inputs: job descriptions and NER capabilities                       *)
(***************************************************************************)
\* the end-to-end scenario of three bullet lines
BulletsDoc ==
    "- 5+ years of experience\n- AWS knowledge required\n- We value teamwork"

DegreeDoc == "Bachelor's degree in Computer Science is required"

OfferDoc == "We offer competitive salary and benefits."

\* a removed character between two spaces
SpacedSymbolDoc == "a @ b"

\* ten characters of which _clean_text removes the last
HashSkillDoc == "Skills: C#"

\* two list lines whose candidates are shorter than 10 characters
ShortItemsDoc == "- 5+ years\n- Git"

\* one line whose two segments differ only in the case of the first letter
TwiceDoc == "- Python skills. python skills"

\* a list with the same line twice
RepeatedLineDoc == "- Java skills\n- Java skills\n- SQL and Git basics"

\* one whitespace-separated token of 56 characters
LongTokenDoc == "https://careers.example.com/jobs/senior-backend-engineer"

\* documents of src/test_sentence_extraction.py and src/test_extractor.py, and
\* documents with characters that _clean_text removes
LiteralDocs ==
    {BulletsDoc, DegreeDoc, OfferDoc, SpacedSymbolDoc, HashSkillDoc, LongTokenDoc,
     "Python & SQL required\n",
     "Our company culture is collaborative",
     "Must be proficient in JavaScript and React",
     "We need someone with 5+ years of experience",
     "Good skills. 3+ years of DevOps experience\n1. Experience with Git\n",
     ShortItemsDoc, TwiceDoc, RepeatedLineDoc}

\* the pieces the generated documents are made of
Chunks ==
    <<"must", "team", "experience", " ", "    ", "- ", "\n", ".">>

MaxChunks == 3

\* every concatenation of at most MaxChunks chunks
ChunkDocs ==
    UNION {{CatChars(LAMBDA k : Chunks[choice[k]], 1, n) :
               choice \in [1..n -> 1..Len(Chunks)]} : n \in 0..MaxChunks}

NoScore == [tag |-> "none", val |-> 0]

Score(hundredths) == [tag |-> "num", val |-> hundredths]

\* items a NER pipeline returns: well-formed ones in both naming conventions,
\* scores around the threshold, a missing score, and malformed ones (no dict,
\* a score that is a str)
EntityPool ==
    {[is_dict |-> TRUE, entity_group |-> "ORG", entity_type |-> "", word |-> "AWS",
      text |-> "", score |-> Score(95)],
     [is_dict |-> TRUE, entity_group |-> "", entity_type |-> "MISC", word |-> "",
      text |-> "Python", score |-> Score(71)],
     [is_dict |-> TRUE, entity_group |-> "ORG", entity_type |-> "", word |-> "Azure",
      text |-> "", score |-> Score(70)],
     [is_dict |-> TRUE, entity_group |-> "", entity_type |-> "", word |-> "",
      text |-> "", score |-> Score(99)],
     [is_dict |-> TRUE, entity_group |-> "PER", entity_type |-> "", word |-> "Git",
      text |-> "", score |-> NoScore],
     [is_dict |-> TRUE, entity_group |-> "LOC", entity_type |-> "", word |-> "Java",
      text |-> "", score |-> [tag |-> "str", val |-> 0]],
     [is_dict |-> FALSE, entity_group |-> "", entity_type |-> "", word |-> "",
      text |-> "", score |-> NoScore]}

MaxEntities == 2

NoPipeline == [kind |-> "none", out |-> <<>>]

RaisingPipeline == [kind |-> "raises", out |-> <<>>]

Pipelines ==
    {NoPipeline, RaisingPipeline}
        \cup {[kind |-> "returns", out |-> out] :
                 out \in UNION {[1..n -> EntityPool] : n \in 0..MaxEntities}}

MaxHashSeed == 1

\* a run analyzes one document with one capability in one process: every
\* generated document without NER, the literal documents under every hash
\* seed, and every capability on two of the documents
Inputs ==
    {[doc |-> d, ner |-> NoPipeline, seed |-> 0] : d \in ChunkDocs}
        \cup {[doc |-> d, ner |-> NoPipeline, seed |-> h] :
                 d \in LiteralDocs, h \in 0..MaxHashSeed}
        \cup {[doc |-> d, ner |-> n, seed |-> 0] :
                 d \in {"", BulletsDoc}, n \in Pipelines}

(***************************************************************************)
(* The state machine: an extractor is constructed, then its methods are    *)
(* called on a job description.  reports holds what the calls of           *)
(* analyze_job_description returned, in their order; unit what a direct    *)
(* call of one of the extraction methods returned (as the scripts under    *)
(* src/ call them); the direct call, if there is one, is the last call of  *)
(* the run.  calls holds the frames of the calls of                        *)
(* analyze_job_description that run concurrently on the one extractor.     *)
(* extractor and results are the fields of a BatchJobProcessor (extractor  *)
(* as the report its analyze_job_description returns for a description,    *)
(* empty when no processor was constructed) and batch is what the last     *)
(* call of one of the processor's methods did.                             *)
(***************************************************************************)
VARIABLES job_description, ner_pipeline, hashseed, reports, unit, calls,
          extractor, results, batch

vars ==
    <<job_description, ner_pipeline, hashseed, reports, unit, calls, extractor,
      results, batch>>

\* the calls of analyze_job_description in a row on one description
MaxAnalyses == 2

\* the result of the first call
report ==
    IF Len(reports) >= 1 THEN [done |-> TRUE, value |-> reports[1]]
    ELSE [done |-> FALSE]

\* the result of the call that followed the first
again ==
    IF Len(reports) >= 2 THEN [done |-> TRUE, value |-> reports[2]]
    ELSE [done |-> FALSE]

Init ==
    /\ \E input \in Inputs :
           /\ job_description = input.doc
           /\ ner_pipeline = input.ner
           /\ hashseed = input.seed
    /\ reports = <<>>
    /\ unit = [op |-> "none"]
    /\ calls = <<>>
    /\ extractor = << >>
    /\ results = <<>>
    /\ batch = [op |-> "none"]

\* a call that drops the NER pipeline of the extractor when it returns
AnalyzeJobDescription_ReleasesPipeline ==
    /\ Len(reports) < MaxAnalyses
    /\ unit.op = "none"
    /\ reports' = Append(reports,
                         analyze_job_description(job_description, ner_pipeline,
                                                 hashseed))
    /\ ner_pipeline' = NoPipeline
    /\ UNCHANGED <<job_description, hashseed, unit, calls,
                 extractor, results, batch>>

\* a call of analyze_job_description on the description.  No method assigns
\* to a field of the extractor: the call leaves ner_pipeline (and the
\* categories) as they were.
AnalyzeJobDescription ==
    /\ Len(reports) < MaxAnalyses
    /\ unit.op = "none"
    /\ reports' = Append(reports,
                         analyze_job_description(job_description, ner_pipeline,
                                                 hashseed))
    /\ UNCHANGED <<job_description, ner_pipeline, hashseed, unit, calls,
                 extractor, results, batch>>

CleanText ==
    /\ unit.op = "none"
    /\ unit' = [op |-> "_clean_text", ret |-> clean_text(job_description)]
    /\ UNCHANGED <<job_description, ner_pipeline, hashseed, reports, calls,
                 extractor, results, batch>>

ExtractTextPatterns ==
    /\ unit.op = "none"
    /\ unit' = [op |-> "_extract_text_patterns",
                ret |-> extract_text_patterns(job_description, hashseed)]
    /\ UNCHANGED <<job_description, ner_pipeline, hashseed, reports, calls,
                 extractor, results, batch>>

ExtractIndividualRequirements ==
    /\ unit.op = "none"
    /\ unit' = [op |-> "_extract_individual_requirements",
                ret |-> extract_individual_requirements(job_description)]
    /\ UNCHANGED <<job_description, ner_pipeline, hashseed, reports, calls,
                 extractor, results, batch>>

ExtractEntities ==
    /\ unit.op = "none"
    /\ unit' = [op |-> "_extract_entities",
                ret |-> extract_entities(ner_pipeline, job_description)]
    /\ UNCHANGED <<job_description, ner_pipeline, hashseed, reports, calls,
                 extractor, results, batch>>

Next ==
    \/ AnalyzeJobDescription
    \/ CleanText
    \/ ExtractTextPatterns
    \/ ExtractIndividualRequirements
    \/ ExtractEntities

Spec == Init /\ [][Next]_vars

(***************************************************************************)
(* Concurrent calls of analyze_job_description on one extractor.  Every    *)
(* call has a frame with its argument, its position and its locals; the    *)
(* fields of the extractor (ner_pipeline, the categories) and the string   *)
(* hash of the process are shared.  A step is one statement of             *)
(* analyze_job_description or extract_requirements.  The code evaluates    *)
(* the list detector (line 79) before the pattern detector (line 83); the  *)
(* model takes the two in either order.                                    *)
(***************************************************************************)
MaxCalls == 2

Calls == 1..MaxCalls

\* call c analyzes the c-th document of a window of this list
ConcurrentDocs == <<"- 5+ years\n- Git", "SQL & AWS required\n", "", HashSkillDoc>>

ReturningPipeline ==
    [kind |-> "returns",
     out |-> <<[is_dict |-> TRUE, entity_group |-> "ORG", entity_type |-> "",
                word |-> "AWS", text |-> "", score |-> Score(95)]>>]

ConcurrentPipelines == {NoPipeline, RaisingPipeline, ReturningPipeline}

\* the frame of a call that has not started; alone is the report the call
\* returns when it runs on its own
Frame(doc, ner, seed) ==
    [doc |-> doc, pc |-> "start", pending |-> {},
     cleaned_text |-> "", individual_reqs |-> <<>>, text_requirements |-> <<>>,
     entity_requirements |-> <<>>, categorized_requirements |-> <<>>,
     requirements |-> <<>>, complexity_score |-> <<>>, result |-> <<>>,
     alone |-> analyze_job_description(doc, ner, seed)]

InitConcurrent ==
    /\ job_description = ""
    /\ reports = <<>>
    /\ unit = [op |-> "none"]
    /\ ner_pipeline \in ConcurrentPipelines
    /\ hashseed = 0
    /\ extractor = << >>
    /\ results = <<>>
    /\ batch = [op |-> "none"]
    /\ \E first \in 0..(Len(ConcurrentDocs) - MaxCalls) :
           calls = [c \in Calls |->
                       Frame(ConcurrentDocs[first + c], ner_pipeline, hashseed)]

Shared ==
    <<job_description, ner_pipeline, hashseed, reports, unit, extractor,
      results, batch>>

At(c, pc) == calls[c].pc = pc

\* lines 72-76: the test for the empty description, then _clean_text
CleanStep(c) ==
    /\ At(c, "start")
    /\ calls' = [calls EXCEPT ![c] =
                    IF calls[c].doc = ""
                    THEN [@ EXCEPT !.requirements =
                                       [error |-> "No job description provided"],
                                   !.pc = "complexity"]
                    ELSE [@ EXCEPT !.cleaned_text = clean_text(calls[c].doc),
                                   !.pending = {"individual", "text"},
                                   !.pc = "detect"]]
    /\ UNCHANGED Shared

\* line 79
IndividualStep(c) ==
    /\ At(c, "detect")
    /\ "individual" \in calls[c].pending
    /\ calls' = [calls EXCEPT ![c] =
                    [@ EXCEPT !.individual_reqs =
                                  extract_individual_requirements(calls[c].doc),
                              !.pending = @ \ {"individual"}]]
    /\ UNCHANGED Shared

\* line 83
TextStep(c) ==
    /\ At(c, "detect")
    /\ "text" \in calls[c].pending
    /\ calls' = [calls EXCEPT ![c] =
                    [@ EXCEPT !.text_requirements =
                                  extract_text_patterns(calls[c].cleaned_text,
                                                        hashseed),
                              !.pending = @ \ {"text"}]]
    /\ UNCHANGED Shared

\* the NER step dropping the pipeline of the extractor after it used it
EntitiesStep_ReleasesPipeline(c) ==
    /\ At(c, "detect")
    /\ calls[c].pending = {}
    /\ calls' = [calls EXCEPT ![c] =
                    [@ EXCEPT !.entity_requirements =
                                  extract_entities(ner_pipeline,
                                                   calls[c].cleaned_text),
                              !.pc = "categorize"]]
    /\ ner_pipeline' = NoPipeline
    /\ UNCHANGED <<job_description, hashseed, reports, unit, extractor,
                   results, batch>>

\* line 85: reads self.ner_pipeline
EntitiesStep(c) ==
    /\ At(c, "detect")
    /\ calls[c].pending = {}
    /\ calls' = [calls EXCEPT ![c] =
                    [@ EXCEPT !.entity_requirements =
                                  extract_entities(ner_pipeline,
                                                   calls[c].cleaned_text),
                              !.pc = "categorize"]]
    /\ UNCHANGED Shared

\* line 86: reads self.categories
CategorizeStep(c) ==
    /\ At(c, "categorize")
    /\ calls' = [calls EXCEPT ![c] =
                    [@ EXCEPT !.categorized_requirements =
                                  categorize_requirements(calls[c].doc, hashseed),
                              !.pc = "summary"]]
    /\ UNCHANGED Shared

\* lines 87-90: the summary completes the dictionary, which is returned
SummaryStep(c) ==
    /\ At(c, "summary")
    /\ calls' = [calls EXCEPT ![c] =
                    [@ EXCEPT !.requirements =
                                  [text_requirements |-> calls[c].text_requirements,
                                   individual_requirements |-> calls[c].individual_reqs,
                                   entity_requirements |-> calls[c].entity_requirements,
                                   categorized_requirements |->
                                       calls[c].categorized_requirements,
                                   summary |-> generate_summary(calls[c].doc, hashseed)],
                              !.pc = "complexity"]]
    /\ UNCHANGED Shared

\* line 329
ComplexityStep(c) ==
    /\ At(c, "complexity")
    /\ calls' = [calls EXCEPT ![c] =
                    [@ EXCEPT !.complexity_score = calculate_complexity(calls[c].doc),
                              !.pc = "recommend"]]
    /\ UNCHANGED Shared

\* lines 325-333
RecommendStep(c) ==
    /\ At(c, "recommend")
    /\ calls' = [calls EXCEPT ![c] =
                    [@ EXCEPT !.result =
                                  [requirements |-> calls[c].requirements,
                                   text_length |-> Len(calls[c].doc),
                                   word_count |-> Len(Words(calls[c].doc)),
                                   complexity_score |-> calls[c].complexity_score,
                                   recommendations |->
                                       generate_recommendations(calls[c].requirements)],
                              !.pc = "done"]]
    /\ UNCHANGED Shared

NextConcurrent ==
    \E c \in Calls :
        \/ CleanStep(c)
        \/ IndividualStep(c)
        \/ TextStep(c)
        \/ EntitiesStep(c)
        \/ CategorizeStep(c)
        \/ SummaryStep(c)
        \/ ComplexityStep(c)
        \/ RecommendStep(c)

SpecConcurrent == InitConcurrent /\ [][NextConcurrent]_vars

(***************************************************************************)
(* _generate_recommendations called directly                               *)
(*                                                                         *)
(* The argument is a dict as extract_requirements returns it: the error    *)
(* indicator, or a dict with categorized_requirements and a summary.  Of   *)
(* the summary only requirement_density is read, and of the lists only     *)
(* their lengths, so the other fields are left out and a list holds one    *)
(* placeholder entry.  A category is absent, maps to an empty list, or     *)
(* maps to a list with an entry.                                           *)
(***************************************************************************)
\* the sentences of a summary: requirement_density = n / d with n <= d <= 10
MaxSentences == 10

RecommendationCategories == {"technical_skills", "experience", "education", "tools"}

CategorizedOf(choice) ==
    [c \in {x \in RecommendationCategories : choice[x] # "absent"} |->
        IF choice[c] = "empty" THEN <<>> ELSE <<"Requirement">>]

RequirementDicts ==
    {[error |-> "No job description provided"]}
        \cup UNION {{[categorized_requirements |-> CategorizedOf(choice),
                      summary |-> [requirement_density |-> Ratio(n, d)]] :
                         choice \in [RecommendationCategories ->
                                        {"absent", "empty", "listed"}],
                         n \in 0..d} :
                     d \in 0..MaxSentences}

InitRecommendations ==
    /\ job_description = ""
    /\ ner_pipeline = NoPipeline
    /\ hashseed = 0
    /\ reports = <<>>
    /\ unit = [op |-> "none"]
    /\ calls = <<>>
    /\ extractor = << >>
    /\ results = <<>>
    /\ batch = [op |-> "none"]

GenerateRecommendations ==
    /\ unit.op = "none"
    /\ \E requirements \in RequirementDicts :
           unit' = [op |-> "_generate_recommendations",
                    arg |-> requirements,
                    ret |-> generate_recommendations(requirements)]
    /\ UNCHANGED <<job_description, ner_pipeline, hashseed, reports, calls,
                 extractor, results, batch>>

NextRecommendations == GenerateRecommendations

SpecRecommendations == InitRecommendations /\ [][NextRecommendations]_vars

(***************************************************************************)
(* BatchJobProcessor                                                       *)
(*                                                                         *)
(* A processor is constructed, then process_directory, process_csv and     *)
(* save_results are called on it in any order and any number of times.     *)
(* The file system is an input of each call: a directory is missing, a     *)
(* regular file, or holds files in the order glob yields them; a file is   *)
(* readable with a content, or open/read raises for it; a CSV file is      *)
(* missing or has a header, with or without the text column, and rows, of  *)
(* which a row shorter than the header reads None for the text column.     *)
(* The extractor of the processor has no NER pipeline.  batch records the  *)
(* last call: its argument, whether it raised, and what it returned or     *)
(* wrote; analyzed is the length of the local list when the call raised.   *)
(***************************************************************************)
\* the files of a directory and the rows of a CSV file
MaxFiles == 2

BatchDocs == {"", HashSkillDoc, "SQL & AWS required"}

FilePool ==
    {[filename |-> "a.txt", readable |-> TRUE, content |-> ""],
     [filename |-> "b.txt", readable |-> TRUE, content |-> HashSkillDoc],
     [filename |-> "c.md", readable |-> TRUE, content |-> "SQL & AWS required"],
     [filename |-> "d.txt", readable |-> FALSE, content |-> ""]}

\* the sequences of at most n different elements of S
Listings(S, n) ==
    UNION {{f \in [1..k -> S] : \A i, j \in 1..k : f[i] = f[j] => i = j} :
               k \in 0..n}

Directories ==
    {[path |-> "jobs", kind |-> "missing", files |-> <<>>],
     [path |-> "jobs", kind |-> "file", files |-> <<>>]}
        \cup {[path |-> "jobs", kind |-> "dir", files |-> files] :
                 files \in Listings(FilePool, MaxFiles)}

\* the value of the text column in a row
Cells ==
    {[none |-> TRUE, text |-> ""]}
        \cup {[none |-> FALSE, text |-> d] : d \in BatchDocs}

CsvFiles ==
    {[path |-> "jobs.csv", exists |-> FALSE, has_column |-> FALSE, rows |-> <<>>]}
        \cup {[path |-> "jobs.csv", exists |-> TRUE, has_column |-> has,
               rows |-> rows] :
                 has \in BOOLEAN,
                 rows \in UNION {[1..k -> Cells] : k \in 0..MaxFiles}}

Formats == {"json", "csv", "CSV", "xml"}

InitBatch ==
    /\ job_description = ""
    /\ ner_pipeline = NoPipeline
    /\ hashseed = 0
    /\ reports = <<>>
    /\ unit = [op |-> "none"]
    /\ calls = <<>>
    /\ extractor =
           [d \in BatchDocs |-> analyze_job_description(d, NoPipeline, 0)]
    /\ results = <<>>
    /\ batch = [op |-> "none"]

process_file(directory, file) ==
    IF file.readable
    THEN ("file_info" :> [filename |-> file.filename,
                          file_path |-> directory.path \o "/" \o file.filename,
                          file_size |-> Len(file.content)])
             @@ extractor[file.content]
    ELSE [error |-> "can't decode",
          file_info |-> [filename |-> file.filename,
                         file_path |-> directory.path \o "/" \o file.filename]]

ProcessDirectory ==
    /\ \E directory \in Directories :
           IF directory.kind # "dir"
           THEN /\ batch' = [op |-> "process_directory", arg |-> directory,
                             raised |-> TRUE, error |-> "ValueError",
                             analyzed |-> 0]
                /\ results' = results
           ELSE LET files == directory.files
                    local == [k \in 1..Len(files) |->
                                 process_file(directory, files[k])]
                IN  /\ results' = local
                    /\ batch' = [op |-> "process_directory", arg |-> directory,
                                 raised |-> FALSE, ret |-> local]
    /\ UNCHANGED <<job_description, ner_pipeline, hashseed, reports, unit, calls,
                   extractor>>

\* f'Row_{i}'
RowId(i) == "Row_" \o SubSeq("0123456789", i + 1, i + 1)

\* the analysis of row i with its row_info
RowAnalysis(csv, i) ==
    ("row_info" :> [row_number |-> i, row_id |-> RowId(i),
                    all_columns |-> csv.rows[i]])
        @@ extractor[csv.rows[i].text]

\* the rows at which the loop raises: every row when the header lacks the
\* text column (ValueError), a row that reads None (TypeError of len)
RaisingRows(csv) ==
    {i \in 1..Len(csv.rows) : ~csv.has_column \/ csv.rows[i].none}

\* process_csv assigning self.results after every row
ProcessCsv_Eager ==
    /\ \E csv \in CsvFiles :
           IF ~csv.exists
           THEN /\ batch' = [op |-> "process_csv", arg |-> csv, raised |-> TRUE,
                             error |-> "ValueError", analyzed |-> 0]
                /\ results' = results
           ELSE LET stop == IF RaisingRows(csv) = {} THEN Len(csv.rows) + 1
                            ELSE SetMin(RaisingRows(csv))
                    local == [i \in 1..(stop - 1) |-> RowAnalysis(csv, i)]
                IN  /\ results' = local
                    /\ batch' = IF stop <= Len(csv.rows)
                                THEN [op |-> "process_csv", arg |-> csv,
                                      raised |-> TRUE,
                                      error |-> IF csv.has_column
                                                THEN "TypeError"
                                                ELSE "ValueError",
                                      analyzed |-> Len(local)]
                                ELSE [op |-> "process_csv", arg |-> csv,
                                      raised |-> FALSE, ret |-> local]
    /\ UNCHANGED <<job_description, ner_pipeline, hashseed, reports, unit, calls,
                   extractor>>

ProcessCsv ==
    /\ \E csv \in CsvFiles :
           IF ~csv.exists
           THEN /\ batch' = [op |-> "process_csv", arg |-> csv, raised |-> TRUE,
                             error |-> "ValueError", analyzed |-> 0]
                /\ results' = results
           ELSE LET stop == IF RaisingRows(csv) = {} THEN Len(csv.rows) + 1
                            ELSE SetMin(RaisingRows(csv))
                    local == [i \in 1..(stop - 1) |-> RowAnalysis(csv, i)]
                IN  IF stop <= Len(csv.rows)
                    THEN /\ batch' = [op |-> "process_csv", arg |-> csv,
                                      raised |-> TRUE,
                                      error |-> IF csv.has_column
                                                THEN "TypeError"
                                                ELSE "ValueError",
                                      analyzed |-> Len(local)]
                         /\ results' = results
                    ELSE /\ results' = local
                         /\ batch' = [op |-> "process_csv", arg |-> csv,
                                      raised |-> FALSE, ret |-> local]
    /\ UNCHANGED <<job_description, ner_pipeline, hashseed, reports, unit, calls,
                   extractor>>

\* result.get(key, 0)
GetOrZero(result, key) == IF key \in DOMAIN result THEN result[key] ELSE 0

\* flat_row of one result: its keys with their values, in insertion order
flat_row(result) ==
    LET info ==
            IF "file_info" \in DOMAIN result
            THEN <<[key |-> "filename", value |-> result.file_info.filename],
                   [key |-> "file_path", value |-> result.file_info.file_path]>>
            ELSE IF "row_info" \in DOMAIN result
            THEN <<[key |-> "row_id", value |-> result.row_info.row_id],
                   [key |-> "row_number", value |-> result.row_info.row_number]>>
            ELSE <<>>
        metrics ==
            <<[key |-> "text_length", value |-> GetOrZero(result, "text_length")],
              [key |-> "word_count", value |-> GetOrZero(result, "word_count")],
              [key |-> "complexity_score",
               value |-> GetOrZero(result, "complexity_score")]>>
        has(field) == /\ "requirements" \in DOMAIN result
                      /\ field \in DOMAIN result.requirements
        summary == result.requirements.summary
        totals ==
            IF has("summary")
            THEN <<[key |-> "total_sentences",
                    value |-> GetOrZero(summary, "total_sentences")],
                   [key |-> "requirement_sentences",
                    value |-> GetOrZero(summary, "requirement_sentences")],
                   [key |-> "requirement_density",
                    value |-> GetOrZero(summary, "requirement_density")],
                   [key |-> "estimated_requirements",
                    value |-> GetOrZero(summary, "estimated_requirements")]>>
            ELSE <<>>
        cats == result.requirements.categorized_requirements
        listed == SelectSeq(CategoryNames, LAMBDA c : c \in DOMAIN cats)
        counts ==
            IF has("categorized_requirements")
            THEN [k \in 1..Len(listed) |->
                     [key |-> listed[k] \o "_count", value |-> Len(cats[listed[k]])]]
            ELSE <<>>
    IN  info \o metrics \o totals \o counts

Keys(row) == {row[k].key : k \in 1..Len(row)}

\* DictWriter._dict_to_list: the values of the row in the order of the
\* fieldnames, "" for a fieldname the row does not have
dict_to_list(fieldnames, row) ==
    [n \in 1..Len(fieldnames) |->
        IF fieldnames[n] \in Keys(row)
        THEN row[CHOOSE k \in 1..Len(row) : row[k].key = fieldnames[n]].value
        ELSE ""]

\* the rows whose keys are not all fieldnames: _dict_to_list raises
\* ValueError for them (extrasaction is 'raise')
ExtraRows(fieldnames, rows) ==
    {k \in 1..Len(rows) :
        ~(Keys(rows[k]) \subseteq {fieldnames[n] : n \in 1..Len(fieldnames)})}

\* the CSV branch: what is written before writerows returns or raises
save_csv(flattened_results) ==
    IF flattened_results = <<>>
    THEN [raised |-> FALSE,
          file |-> [written |-> FALSE, header |-> <<>>, rows |-> <<>>]]
    ELSE LET first == flattened_results[1]
             fieldnames == [n \in 1..Len(first) |-> first[n].key]
             extra == ExtraRows(fieldnames, flattened_results)
             stop == IF extra = {} THEN Len(flattened_results) + 1
                     ELSE SetMin(extra)
         IN  [raised |-> stop <= Len(flattened_results),
              file |-> [written |-> TRUE, header |-> fieldnames,
                        rows |-> [k \in 1..(stop - 1) |->
                                     dict_to_list(fieldnames,
                                                  flattened_results[k])]]]

SaveResults ==
    /\ \E format \in Formats :
           batch' =
               IF Lower(format) = "json"
               THEN [op |-> "save_results", format |-> format, raised |-> FALSE,
                     file |-> [written |-> TRUE, dump |-> results]]
               ELSE IF Lower(format) = "csv"
               THEN LET saved ==
                            save_csv([k \in 1..Len(results) |->
                                         flat_row(results[k])])
                    IN  [op |-> "save_results", format |-> format,
                         raised |-> saved.raised, file |-> saved.file]
               ELSE [op |-> "save_results", format |-> format, raised |-> FALSE,
                     file |-> [written |-> FALSE]]
    /\ UNCHANGED <<job_description, ner_pipeline, hashseed, reports, unit, calls,
                   extractor, results>>

NextBatch ==
    \/ ProcessDirectory
    \/ ProcessCsv
    \/ SaveResults

SpecBatch == InitBatch /\ [][NextBatch]_vars

(***************************************************************************)
(* The claims                                                              *)
(***************************************************************************)
Has(seq, x) == \E k \in 1..Len(seq) : seq[k] = x

Analyzed == report.done

\* the report of a document that was not empty
Extracted == report.done /\ job_description # ""

Requirements == report.value.requirements

Called(op) == unit.op = op

\* C1: for the three bullet lines, individual_requirements of the report
\* contains "5+ years of experience" and "AWS knowledge required" and does not
\* contain "We value teamwork".
C1_BulletsIndividualRequirements ==
    (Analyzed /\ job_description = BulletsDoc) =>
        /\ Has(Requirements.individual_requirements, "5+ years of experience")
        /\ Has(Requirements.individual_requirements, "AWS knowledge required")
        /\ ~Has(Requirements.individual_requirements, "We value teamwork")

\* C2: for the three bullet lines, categorized_requirements['experience']
\* contains "5+ years of experience" and
\* categorized_requirements['technical_skills'] contains
\* "AWS knowledge required".
C2_BulletsCategorized ==
    (Analyzed /\ job_description = BulletsDoc) =>
        LET cats == Requirements.categorized_requirements
        IN  /\ "experience" \in DOMAIN cats
            /\ Has(cats["experience"], "5+ years of experience")
            /\ "technical_skills" \in DOMAIN cats
            /\ Has(cats["technical_skills"], "AWS knowledge required")

\* the part of C2 that the code meets: the second line is listed under
\* technical_skills
C2_TechnicalSkillsListed ==
    (Analyzed /\ job_description = BulletsDoc) =>
        LET cats == Requirements.categorized_requirements
        IN  /\ "technical_skills" \in DOMAIN cats
            /\ Has(cats["technical_skills"], "AWS knowledge required")

\* the marker characters of the claim: bullet, dash, asterisk, and the
\* characters of a number marker
MarkerGlyphs == {"-", Bullet, "*", ".", ")"} \cup Digits

\* a line that qualifies as C3 states it: a marker after optional leading
\* whitespace, or at least 4 leading whitespace characters
QualifiesAsStated(line) ==
    LET ws == LeadingRun(line, Whitespace)
    IN  \/ ws >= MinIndent
        \/ (ws < Len(line) /\ Char(line, ws + 1) \in MarkerGlyphs)

QualifyingLines(text) ==
    LET lines == SplitLines(text)
    IN  {k \in 1..Len(lines) : QualifiesAsStated(lines[k])}

\* C3: the list detector yields a candidate for a line only if the line begins
\* with a bullet/dash/number marker or with at least 4 whitespace characters,
\* so it returns at most one candidate per such line and none for a line with
\* no marker and fewer than 4 leading whitespace characters.
C3_ListNeedsMarkerOrIndent ==
    Called("_extract_individual_requirements") =>
        Len(unit.ret) <= Cardinality(QualifyingLines(job_description))

\* C4: for "Bachelor's degree in Computer Science is required" the pattern
\* detector returns exactly one candidate, equal to the sentence character for
\* character, and the categorizer lists it under 'education'.
C4_DegreeSentence ==
    job_description = DegreeDoc =>
        /\ Called("_extract_text_patterns") => unit.ret = <<DegreeDoc>>
        /\ Analyzed =>
               /\ "education" \in DOMAIN Requirements.categorized_requirements
               /\ Requirements.categorized_requirements["education"]
                      = <<DegreeDoc>>

C4_Witness ==
    /\ job_description = DegreeDoc
    /\ Called("_extract_text_patterns")
    /\ unit.ret = <<DegreeDoc>>
    /\ Analyzed
    /\ Has(Requirements.categorized_requirements["education"], DegreeDoc)

HasExclusion(s) == ContainsAny(Lower(s), skip_indicators)

HasKeyword(s) == ContainsAny(Lower(s), requirement_keywords)

\* the segments of the detector's split that contain no exclusion term
SegmentsWithoutExclusion(text) ==
    LET segments == ReSplit(text, "full")
    IN  {k \in 1..Len(segments) : ~HasExclusion(segments[k])}

\* C5: exclusion terms take precedence over requirement keywords: a segment
\* that contains an exclusion term yields no candidate (the detector returns
\* at most one candidate per segment without exclusion term), no returned
\* candidate contains an exclusion term, and
\* "We offer competitive salary and benefits." yields an empty result.
C5_ExclusionPrecedence ==
    /\ Called("_extract_text_patterns") =>
           /\ \A k \in 1..Len(unit.ret) : ~HasExclusion(unit.ret[k])
           /\ Len(unit.ret)
                  <= Cardinality(SegmentsWithoutExclusion(job_description))
           /\ job_description = OfferDoc => unit.ret = <<>>
    /\ Extracted =>
           /\ \A k \in 1..Len(Requirements.text_requirements) :
                  ~HasExclusion(Requirements.text_requirements[k])
           /\ job_description = OfferDoc => Requirements.text_requirements = <<>>

\* a document of one segment that is long enough and has a requirement
\* keyword and an exclusion term, for which the detector returned nothing
C5_Witness ==
    /\ Called("_extract_text_patterns")
    /\ Len(ReSplit(job_description, "full")) = 1
    /\ Len(Strip(job_description)) >= MinSentenceLen
    /\ HasKeyword(job_description)
    /\ HasExclusion(job_description)
    /\ unit.ret = <<>>

\* the segments of the detector's split whose trimmed length is at least 10
LongSegments(text) ==
    LET segments == ReSplit(text, "full")
    IN  {k \in 1..Len(segments) : Len(Strip(segments[k])) >= 10}

\* C6: for an input whose trimmed length is below 10 the pattern detector
\* returns an empty result, and no candidate is derived from a segment whose
\* trimmed length is below 10 (at most one candidate per longer segment).
C6_ShortSegmentsDropped ==
    /\ Called("_extract_text_patterns") =>
           /\ Len(Strip(job_description)) < 10 => unit.ret = <<>>
           /\ Len(unit.ret) <= Cardinality(LongSegments(job_description))
    /\ Extracted =>
           (Len(Strip(job_description)) < 10
                => Requirements.text_requirements = <<>>)

\* a short input that has a requirement keyword and no exclusion term
C6_Witness ==
    /\ Called("_extract_text_patterns")
    /\ job_description # ""
    /\ Len(Strip(job_description)) < 10
    /\ HasKeyword(job_description)
    /\ ~HasExclusion(job_description)
    /\ unit.ret = <<>>

ReportFields ==
    {"requirements", "text_length", "word_count", "complexity_score",
     "recommendations"}

RequirementFields ==
    {"text_requirements", "individual_requirements", "entity_requirements",
     "categorized_requirements", "summary"}

\* C7: for the empty document analyze_job_description returns a well-formed
\* result whose requirements part is the error indicator
\* "No job description provided" and nothing else: no requirement lists, zero
\* counts and score, and the one advisory that needs no data.
C7_EmptyDocument ==
    (Analyzed /\ job_description = "") =>
        /\ DOMAIN report.value = ReportFields
        /\ Requirements = [error |-> "No job description provided"]
        /\ report.value.text_length = 0
        /\ report.value.word_count = 0
        /\ report.value.complexity_score = [num |-> 0, den |-> 1]
        /\ report.value.recommendations = <<FewerAdvice>>

C7_Witness ==
    /\ Analyzed
    /\ job_description = ""
    /\ DOMAIN Requirements = {"error"}

NerUnavailable == ner_pipeline.kind \in {"none", "raises"}

\* C8: when the NER capability is absent or raises, _extract_entities returns
\* an empty list and analyze_job_description still returns a complete report
\* with entity_requirements = [].
C8_NerFailureAbsorbed ==
    NerUnavailable =>
        /\ Called("_extract_entities") => unit.ret = <<>>
        /\ Extracted =>
               /\ DOMAIN report.value = ReportFields
               /\ DOMAIN Requirements = RequirementFields
               /\ Requirements.entity_requirements = <<>>

\* a capability that raised, after both calls
C8_Witness ==
    /\ ner_pipeline.kind = "raises"
    /\ Called("_extract_entities")
    /\ unit.ret = <<>>
    /\ Extracted
    /\ Requirements.entity_requirements = <<>>

\* a record the adapter can read whose score is above 0.7
WellFormedAbove(entity) ==
    /\ entity.is_dict
    /\ entity.score.tag = "num"
    /\ entity.score.val > 70

\* a record that is no mapping or whose score cannot be compared with a number
Malformed(entity) == ~entity.is_dict \/ entity.score.tag = "str"

ReturnedByNer == IF ner_pipeline.kind = "returns" THEN ner_pipeline.out ELSE <<>>

\* C9: every entity _extract_entities returns has confidence > 0.7 (a record
\* with score exactly 0.7 or without score is never returned), and every
\* well-formed record with score above 0.7 is returned.
C9_ConfidenceAboveThreshold ==
    Called("_extract_entities") =>
        /\ \A k \in 1..Len(unit.ret) : unit.ret[k].confidence > 70
        /\ \A k \in 1..Len(ReturnedByNer) :
               WellFormedAbove(ReturnedByNer[k]) =>
                   \E j \in 1..Len(unit.ret) :
                       unit.ret[j].confidence = ReturnedByNer[k].score.val
        /\ Len(unit.ret)
               = Cardinality({k \in 1..Len(ReturnedByNer) :
                                 WellFormedAbove(ReturnedByNer[k])})

\* a record at the threshold or without score was dropped and one above the
\* threshold returned
C9_Witness ==
    /\ Called("_extract_entities")
    /\ \E k \in 1..Len(ReturnedByNer) :
           /\ ReturnedByNer[k].is_dict
           /\ ReturnedByNer[k].score \in {Score(70), NoScore}
    /\ \E k \in 1..Len(ReturnedByNer) : WellFormedAbove(ReturnedByNer[k])
    /\ Len(unit.ret) = 1

\* C10: malformed records are skipped one by one, and every well-formed
\* record with score > 0.7 of the same sequence is returned, in the
\* capability's order.
C10_MalformedSkipped ==
    Called("_extract_entities") =>
        LET good == SelectSeq(ReturnedByNer, WellFormedAbove)
        IN  /\ Len(unit.ret) = Len(good)
            /\ \A k \in 1..Len(good) :
                   /\ unit.ret[k].confidence = good[k].score.val
                   /\ good[k].word # "" => unit.ret[k].text = good[k].word
                   /\ (good[k].word = "" /\ good[k].text # "")
                          => unit.ret[k].text = good[k].text

\* a malformed record came before a well-formed one, which was returned
C10_Witness ==
    /\ Called("_extract_entities")
    /\ Len(ReturnedByNer) = 2
    /\ Malformed(ReturnedByNer[1])
    /\ WellFormedAbove(ReturnedByNer[2])
    /\ Len(unit.ret) = 1
    /\ unit.ret[1].confidence = ReturnedByNer[2].score.val

\* C11: the complexity score is exactly 0.0 for the empty string and for any
\* input without a whitespace-separated token, and for every input it lies in
\* [0, 10] inclusive.
C11_ComplexityRange ==
    Analyzed =>
        LET score == report.value.complexity_score
        IN  /\ score.den > 0
            /\ 0 <= score.num
            /\ score.num <= MaxComplexity * score.den
            /\ Words(job_description) = <<>> => score = [num |-> 0, den |-> 1]

\* a document of one long token, whose weighted average exceeds the cap, was
\* scored exactly 10
C11_Witness ==
    /\ Analyzed
    /\ job_description = LongTokenDoc
    /\ 3 * Len(job_description) > 10 * MaxComplexity
    /\ report.value.complexity_score = [num |-> MaxComplexity, den |-> 1]

\* C12: in every summary requirement_sentences <= total_sentences, so
\* requirement_density lies in [0, 1]; when total_sentences is 0 the density
\* is 0 and the division is not attempted.
C12_DensityRange ==
    Extracted =>
        LET summary == Requirements.summary
            density == summary.requirement_density
        IN  /\ 0 <= summary.requirement_sentences
            /\ summary.requirement_sentences <= summary.total_sentences
            /\ density.den > 0
            /\ 0 <= density.num
            /\ density.num <= density.den
            /\ summary.total_sentences = 0 => density = [num |-> 0, den |-> 1]
            /\ summary.total_sentences > 0 =>
                   density = [num |-> summary.requirement_sentences,
                              den |-> summary.total_sentences]

\* a document without a sentence of more than 20 characters, although it has
\* a requirement keyword
C12_Witness ==
    /\ Extracted
    /\ HasKeyword(job_description)
    /\ Requirements.summary.total_sentences = 0
    /\ Requirements.summary.requirement_density.num = 0

C14_EstimateCountsReport ==
    Extracted =>
        Requirements.summary.estimated_requirements
            = Len(Requirements.text_requirements)
                  + Len(Requirements.individual_requirements)

\* the marker-stripped, capitalized forms of the candidates
FormsOf(candidates) ==
    {FormatRequirement(candidates[k]) : k \in 1..Len(candidates)}

Listed(cats) == UNION {{cats[c][k] : k \in 1..Len(cats[c])} : c \in DOMAIN cats}

\* C15 as stated: every string listed under any category of
\* categorized_requirements is the marker-stripped, capitalized form of an
\* entry of text_requirements or individual_requirements of the same report.
C15_CategorizerConsumesReport ==
    Extracted =>
        Listed(Requirements.categorized_requirements)
            \subseteq FormsOf(Requirements.text_requirements
                                  \o Requirements.individual_requirements)

\* C15 (amended): every string listed under any category is the
\* marker-stripped, capitalized form of a candidate the detectors yield on the
\* raw document: an entry of individual_requirements of the report, or an
\* entry of the pattern detector's result for the text before normalization.
C15_CategorizerConsumesRaw ==
    Extracted =>
        /\ Listed(Requirements.categorized_requirements)
               \subseteq FormsOf(Requirements.individual_requirements
                                     \o extract_text_patterns(job_description,
                                                              hashseed))
        /\ \A c \in DOMAIN Requirements.categorized_requirements :
               Requirements.categorized_requirements[c] # <<>>

\* the degree sentence is listed with its apostrophe, which no entry of the
\* report's candidate lists has
C15_Witness ==
    /\ Extracted
    /\ job_description = DegreeDoc
    /\ DegreeDoc \in Listed(Requirements.categorized_requirements)
    /\ DegreeDoc \notin FormsOf(Requirements.text_requirements
                                    \o Requirements.individual_requirements)

Normalized(s) == \A i \in 1..Len(s) : KeptChar(Char(s, i))

\* C16 as stated: individual_requirements of a report is the list detector's
\* output on the normalized text, and every character of every entry belongs
\* to the normalized character set, as for text_requirements.
C16_ListDetectorOnNormalized ==
    Extracted =>
        /\ Requirements.individual_requirements
               = extract_individual_requirements(clean_text(job_description))
        /\ \A k \in 1..Len(Requirements.individual_requirements) :
               Normalized(Requirements.individual_requirements[k])

\* C16 (amended): individual_requirements of a report is the list detector's
\* output on the raw document, so its entries keep characters outside the
\* normalized set; only the entries of text_requirements consist of
\* normalized characters.
C16_ListDetectorOnRaw ==
    Extracted =>
        /\ Requirements.individual_requirements
               = extract_individual_requirements(job_description)
        /\ \A k \in 1..Len(Requirements.text_requirements) :
               Normalized(Requirements.text_requirements[k])

\* the first bullet line keeps its "+", which normalization removes
C16_Witness ==
    /\ Extracted
    /\ job_description = BulletsDoc
    /\ Has(Requirements.individual_requirements, "+ years of experience")
    /\ ~Normalized("+ years of experience")
    /\ Has(Requirements.text_requirements, "Years of experience")

SummaryFields ==
    {"total_sentences", "requirement_sentences", "requirement_density",
     "estimated_requirements"}

\* the positions where a whitespace-separated token starts
TokenStarts(s) ==
    {i \in 1..Len(s) : /\ Char(s, i) \notin Whitespace
                       /\ (i = 1 \/ Char(s, i - 1) \in Whitespace)}

\* C17: for every non-empty document analyze_job_description returns a record
\* with exactly the fields requirements, text_length, word_count,
\* complexity_score, recommendations; requirements has exactly the five
\* requirement fields and summary the four summary fields; text_length is the
\* character count and word_count the whitespace-token count of the raw input.
C17_ReportShape ==
    Extracted =>
        /\ DOMAIN report.value = ReportFields
        /\ DOMAIN Requirements = RequirementFields
        /\ DOMAIN Requirements.summary = SummaryFields
        /\ report.value.text_length = Len(job_description)
        /\ report.value.word_count = Cardinality(TokenStarts(job_description))

\* a report of a document that normalization shortens
C17_Witness ==
    /\ Extracted
    /\ Len(clean_text(job_description)) < Len(job_description)
    /\ report.value.text_length = Len(job_description)
    /\ report.value.word_count > Len(Words(clean_text(job_description)))

\* C19: the output of _clean_text never contains two consecutive space/tab
\* characters, also where a removed character stood between two spaces.
C19_NoDoubleBlank ==
    Called("_clean_text") =>
        \A i \in 1..(Len(unit.ret) - 1) :
            ~(Char(unit.ret, i) \in {" ", "\t"}
                  /\ Char(unit.ret, i + 1) \in {" ", "\t"})

\* the line breaks of s and the characters that are neither removed nor
\* whitespace, in their order
LineSkeleton(s) ==
    CatChars(LAMBDA i : IF Char(s, i) = "\n"
                           \/ (KeptChar(Char(s, i)) /\ ~IsSpace(Char(s, i)))
                        THEN Char(s, i) ELSE "",
             1, Len(s))

\* C20 as stated: _clean_text preserves newlines verbatim: the output has the
\* line breaks of the input, in the same order relative to the surviving
\* characters, also at the very start or end of the input; empty input yields
\* empty output.
C20_NewlinesVerbatim ==
    Called("_clean_text") =>
        /\ LineSkeleton(unit.ret) = LineSkeleton(job_description)
        /\ job_description = "" => unit.ret = ""

\* C20 (amended): _clean_text preserves the line breaks that lie between the
\* first and the last surviving non-whitespace character, in the same order
\* relative to the surviving characters; the line breaks before the first and
\* after the last such character are removed with the other surrounding
\* whitespace; empty input yields empty output.
C20_InnerNewlinesKept ==
    Called("_clean_text") =>
        /\ LineSkeleton(unit.ret) = Strip(LineSkeleton(job_description))
        /\ job_description = "" => unit.ret = ""

\* an inner line break was kept and a trailing one removed
C20_Witness ==
    /\ Called("_clean_text")
    /\ Contains(unit.ret, "\n")
    /\ Len(LineSkeleton(unit.ret)) < Len(LineSkeleton(job_description))

\* C18: analyze calls for different documents that run concurrently on the
\* same extractor, under any interleaving of their steps and with the list
\* and pattern detectors of a call in either order, each return the report
\* they return when run alone, and no step changes what the calls share.
C18_ConcurrentCallsIndependent ==
    /\ [](\A c \in DOMAIN calls :
              calls[c].pc = "done" => calls[c].result = calls[c].alone)
    /\ [][/\ ner_pipeline' = ner_pipeline
          /\ hashseed' = hashseed
          /\ Cardinality({c \in DOMAIN calls : calls'[c] # calls[c]}) <= 1]_vars

\* one call returned its report, with an entity, while another call is
\* between its detectors, the pattern detector having run first
C18_Witness ==
    \E c, d \in DOMAIN calls :
        /\ calls[c].pc = "done"
        /\ calls[c].doc # ""
        /\ Len(calls[c].result.requirements.individual_requirements) > 0
        /\ Len(calls[c].result.requirements.entity_requirements) > 0
        /\ calls[c].result = calls[c].alone
        /\ calls[d].doc # calls[c].doc
        /\ calls[d].pc = "detect"
        /\ calls[d].pending = {"individual"}

\* the candidates the categorizer is given: the list detector's and the
\* pattern detector's results for the document
Candidates ==
    Requirements.individual_requirements
        \o extract_text_patterns(job_description, hashseed)

\* C21: every candidate that either detector returns whose lowercase form
\* contains at least one keyword of a category appears, marker-stripped and
\* capitalized, in that category's list of categorized_requirements; no
\* matching candidate is left out because of its length.
C21_MatchingCandidatesCategorized ==
    Extracted =>
        \A k \in 1..Len(Candidates) :
            \A n \in 1..Len(CategoryNames) :
                ContainsAny(Lower(Candidates[k]), categories(CategoryNames[n])) =>
                    /\ CategoryNames[n]
                           \in DOMAIN Requirements.categorized_requirements
                    /\ Has(Requirements.categorized_requirements[CategoryNames[n]],
                           FormatRequirement(Candidates[k]))

\* C22: categorized_requirements is well formed for every input: every key
\* belongs to the fixed category set, no key maps to an empty list, no
\* category's list contains the same string twice, and a string that matches
\* several categories appears under each of them.
C22_CategorizedWellFormed ==
    Extracted =>
        LET cats == Requirements.categorized_requirements
        IN  /\ DOMAIN cats \subseteq {CategoryNames[n] : n \in 1..Len(CategoryNames)}
            /\ \A c \in DOMAIN cats :
                   /\ cats[c] # <<>>
                   /\ \A i, j \in 1..Len(cats[c]) :
                          cats[c][i] = cats[c][j] => i = j
                   /\ \A i \in 1..Len(cats[c]) :
                          \A n \in 1..Len(CategoryNames) :
                              ContainsAny(Lower(cats[c][i]),
                                          categories(CategoryNames[n])) =>
                                  /\ CategoryNames[n] \in DOMAIN cats
                                  /\ Has(cats[CategoryNames[n]], cats[c][i])

\* the repeated list line is listed once, and the third line under both of
\* the categories it matches, while four categories are left out
C22_Witness ==
    /\ Extracted
    /\ job_description = RepeatedLineDoc
    /\ Requirements.individual_requirements
           = <<"Java skills", "Java skills", "SQL and Git basics">>
    /\ DOMAIN Requirements.categorized_requirements = {"technical_skills", "tools"}
    /\ Requirements.categorized_requirements["technical_skills"]
           = <<"Java skills", "SQL and Git basics">>
    /\ Requirements.categorized_requirements["tools"] = <<"SQL and Git basics">>

\* C23: the pattern detector's result never contains two equal strings, also
\* when two different segments become equal only after marker stripping and
\* capitalization.
C23_PatternResultDistinct ==
    Called("_extract_text_patterns") =>
        \A i, j \in 1..Len(unit.ret) : unit.ret[i] = unit.ret[j] => i = j

\* two kept segments that differ, "- Python skills" and "python skills", have
\* the same stripped and capitalized form, which is returned once
C23_Witness ==
    /\ Called("_extract_text_patterns")
    /\ job_description = TwiceDoc
    /\ KeptSentences(job_description) = <<"- Python skills", "python skills">>
    /\ CleanedRequirements(job_description) = <<"Python skills", "Python skills">>
    /\ unit.ret = <<"Python skills">>

\* the entry of a line that qualifies as stated (marker or indent of at least
\* 4, more than 3 characters after the marker, an indicator term): the text
\* after the marker, stripped and capitalized
StatedEntries(line) ==
    IF QualifiesAsStated(line) THEN LineRequirements(line) ELSE <<>>

\* C24: the list detector performs no deduplication and keeps line order: its
\* result has exactly one entry per qualifying line (marker/indent, stripped
\* length > 3, contains an indicator term), in the order of the lines, so a
\* qualifying line repeated k times yields k equal entries.
C24_OneEntryPerQualifyingLine ==
    Called("_extract_individual_requirements") =>
        LET lines == SplitLines(job_description)
        IN  unit.ret = CatSeqs(LAMBDA k : StatedEntries(lines[k]), 1, Len(lines))

\* the score as C26 states it: the tokens of the segments divided by the
\* number of segments that are not empty (0 when there is none), capped at 10
StatedComplexity(text) ==
    LET words == Words(text)
        sentences == ReSplit(text, "sentence")
        filled == SelectSeq(sentences, LAMBDA x : Strip(x) # "")
        chars == SumRange(LAMBDA k : Len(words[k]), 1, Len(words))
        tokens == SumRange(LAMBDA k : Len(Words(filled[k])), 1, Len(filled))
        technical_count ==
            Len(SelectSeq(words, LAMBDA w : Lower(w) \in technical_terms))
        n == IF filled = <<>> THEN 1 ELSE Len(filled)
        num == 3 * chars * n + 4 * tokens * Len(words) + 3 * technical_count * n
        den == 10 * Len(words) * n
    IN  IF num > MaxComplexity * den THEN [num |-> MaxComplexity, den |-> 1]
        ELSE [num |-> num, den |-> den]

\* C26: for every input with at least one token, the complexity score equals
\* min(10, 0.3*avgWordLength + 0.4*avgSentenceLength + 0.3*technicalDensity),
\* where avgSentenceLength is the total token count divided by the number of
\* non-empty segments only of the split on runs of '.', '!', '?' (an empty
\* trailing segment after a final terminator does not count in the divisor).
C26_SentenceLengthOverFilledSegments ==
    (Analyzed /\ Words(job_description) # <<>>) =>
        LET score == report.value.complexity_score
            stated == StatedComplexity(job_description)
        IN  score.num * stated.den = stated.num * score.den

\* a candidate as C27 describes it
WellFormedCandidate(c) ==
    /\ c # ""
    /\ Strip(c) = c
    /\ Char(c, 1) \notin MarkerGlyphs
    /\ Char(c, 1) \notin LowerSet

AllWellFormed(candidates) ==
    \A k \in 1..Len(candidates) : WellFormedCandidate(candidates[k])

\* C27: every candidate returned by either detector is non-empty, has no
\* leading or trailing whitespace, does not begin with a bullet, dash,
\* asterisk, digit, '.' or ')' marker character, and does not begin with a
\* lowercase letter.
C27_CandidatesWellFormed ==
    /\ Called("_extract_text_patterns") => AllWellFormed(unit.ret)
    /\ Called("_extract_individual_requirements") => AllWellFormed(unit.ret)
    /\ Extracted => /\ AllWellFormed(Requirements.text_requirements)
                    /\ AllWellFormed(Requirements.individual_requirements)

\* the lines of the bullet list began with a dash, the first one with a digit
\* after it and the words in lowercase; both detectors returned candidates
C27_Witness ==
    /\ Extracted
    /\ job_description = BulletsDoc
    /\ Char(job_description, 1) \in MarkerGlyphs
    /\ Has(Requirements.text_requirements, "Years of experience")
    /\ Has(Requirements.individual_requirements, "AWS knowledge required")

\* a document that is not empty and has only whitespace
Blank == job_description # "" /\ Strip(job_description) = ""

\* C28: only the empty string triggers the error indicator: for a non-empty
\* document made only of whitespace, analyze_job_description returns a full
\* report without an error field, with empty text_requirements,
\* individual_requirements and categorized_requirements, total_sentences 0,
\* requirement_density 0, complexity_score 0.0, and recommendations equal to
\* the single "fewer requirements" advisory.
C28_BlankDocumentReport ==
    /\ (Analyzed /\ "error" \in DOMAIN Requirements) => job_description = ""
    /\ (Analyzed /\ Blank) =>
           /\ DOMAIN report.value = ReportFields
           /\ DOMAIN Requirements = RequirementFields
           /\ Requirements.text_requirements = <<>>
           /\ Requirements.individual_requirements = <<>>
           /\ DOMAIN Requirements.categorized_requirements = {}
           /\ Requirements.summary.total_sentences = 0
           /\ Requirements.summary.requirement_density.num = 0
           /\ report.value.complexity_score = [num |-> 0, den |-> 1]
           /\ report.value.recommendations = <<FewerAdvice>>

\* the report of a document of spaces and a line break
C28_Witness ==
    /\ Analyzed
    /\ Blank
    /\ Contains(job_description, "\n")
    /\ Contains(job_description, " ")
    /\ report.value.text_length = Len(job_description)
    /\ report.value.word_count = 0
    /\ "summary" \in DOMAIN Requirements

\* a category of the argument that has a list with an entry
Populated(requirements, category) ==
    /\ "categorized_requirements" \in DOMAIN requirements
    /\ category \in DOMAIN requirements.categorized_requirements
    /\ requirements.categorized_requirements[category] # <<>>

\* the category advisories in their fixed order
CategoryAdvice ==
    <<[category |-> "technical_skills", advice |-> TechnicalAdvice],
      [category |-> "experience", advice |-> ExperienceAdvice],
      [category |-> "education", advice |-> EducationAdvice]>>

\* C25: recommendations is, in this order, the technical-skills advisory if
\* technical_skills is populated, the experience advisory if experience is
\* populated, the education advisory if education is populated, followed by
\* exactly one density advisory as the last element: the "many requirements"
\* wording if and only if requirement_density > 0.3 (strictly), otherwise the
\* "fewer requirements" wording; so its length is between 1 and 4.
C25_RecommendationOrder ==
    Called("_generate_recommendations") =>
        LET given == unit.arg
            before == SubSeq(unit.ret, 1, Len(unit.ret) - 1)
            position(n) == {k \in 1..Len(before) : before[k] = CategoryAdvice[n].advice}
            many == /\ "summary" \in DOMAIN given
                    /\ 10 * given.summary.requirement_density.num
                           > 3 * given.summary.requirement_density.den
        IN  /\ Len(unit.ret) \in 1..4
            /\ unit.ret[Len(unit.ret)] = IF many THEN ManyAdvice ELSE FewerAdvice
            /\ \A k \in 1..Len(before) :
                   \E n \in 1..Len(CategoryAdvice) : before[k] = CategoryAdvice[n].advice
            /\ \A n \in 1..Len(CategoryAdvice) :
                   /\ Cardinality(position(n))
                          = IF Populated(given, CategoryAdvice[n].category) THEN 1 ELSE 0
                   /\ \A m \in 1..(n - 1) :
                          \A i \in position(m) : \A j \in position(n) : i < j

\* three populated categories and a density of exactly 3/10, which is not
\* above 0.3: four advisories, the last one the "fewer" wording
C25_Witness ==
    /\ Called("_generate_recommendations")
    /\ "summary" \in DOMAIN unit.arg
    /\ unit.arg.summary.requirement_density = [num |-> 3, den |-> 10]
    /\ unit.ret = <<TechnicalAdvice, ExperienceAdvice, EducationAdvice, FewerAdvice>>

\* the batch call of the step that may have happened
Processed == batch'.op \in {"process_directory", "process_csv"}

\* the files or rows of the argument of the batch call
Sources(arg) == IF "files" \in DOMAIN arg THEN arg.files ELSE arg.rows

\* result k is the result of the k-th file or row
ResultOf(arg, result, k) ==
    IF "files" \in DOMAIN arg
    THEN result.file_info.filename = arg.files[k].filename
    ELSE result.row_info.row_number = k /\ result.row_info.all_columns = arg.rows[k]

\* C29: BatchJobProcessor keeps its stored results consistent across any
\* sequence of process_directory / process_csv calls: a call that completes
\* replaces self.results with exactly that call's results (one per file or
\* row, in processing order, never appended to earlier ones), and a call that
\* raises (missing directory, missing CSV file, or a row without the text
\* column after earlier rows were already analyzed) leaves self.results as it
\* was before the call.
C29_ResultsReplacedOrKept ==
    [][Processed =>
           IF batch'.raised THEN results' = results
           ELSE /\ results' = batch'.ret
                /\ Len(results') = Len(Sources(batch'.arg))
                /\ \A k \in 1..Len(results') :
                       ResultOf(batch'.arg, results'[k], k)]_vars

\* process_csv raised at its second row, after the first one was analyzed,
\* and the two results of an earlier process_directory are still stored
C29_Witness ==
    /\ batch.op = "process_csv"
    /\ batch.raised
    /\ batch.analyzed = 1
    /\ Len(results) = 2
    /\ \A k \in 1..Len(results) : "file_info" \in DOMAIN results[k]

\* C30: BatchJobProcessor.save_results in CSV format completes without raising
\* and writes one row per stored result for every list of results, including
\* when a later result has a populated category (hence a '<category>_count'
\* column) or a summary that the first result does not have.
C30_CsvSavedForEveryList ==
    (batch.op = "save_results" /\ Lower(batch.format) = "csv") =>
        /\ ~batch.raised
        /\ Len(batch.file.rows) = Len(results)

====
